---- MODULE Spec2Model ----
(***************************************************************************)
(* Model of the jumper VS Code extension: the interactive search session   *)
(* (commands.js: createJumperQuickPick and its continuations), the query   *)
(* and update dispatchers (database.js) and the usage tracking listeners   *)
(* with their debounce timer (extension.js).                               *)
(*                                                                         *)
(* A JavaScript string is a sequence of one-character strings; the tokens  *)
(* "NL" (line feed), " " (blank) and ".ipynb" (the notebook suffix) each   *)
(* stand for themselves as one element.  Query texts typed by the user are *)
(* plain TLA+ strings: the code only tests them for emptiness.             *)
(***************************************************************************)
EXTENDS Integers, Sequences, FiniteSets, TLC

VARIABLES
    config,       \* vscode.workspace.getConfiguration('jumper')
    pc,           \* position of createJumperQuickPick
    stype,        \* its `type` argument
    quickPick,    \* the widget object created by createQuickPick
    queries,      \* executeJumper calls whose process has not exited yet
    nIssued,      \* number of executeJumper calls made by the session
    lastFind,     \* the command line of the last of them
    rendered,     \* the response last written to quickPick.items
    cont,         \* position of the onSelect continuation
    fsOp,         \* the last path handed to a filesystem operation of the editor
    messages,     \* user-visible messages shown so far
    diagnostics,  \* console.error calls made by executeJumper
    rejected,     \* async functions of the extension that ended by raising
    lastUpdate,   \* the `jumper update` process started most recently
    updInFlight,  \* number of not-awaited `jumper update` processes running
    updFailed,    \* some `jumper update` process has exited with a failure
    activated,    \* activate() has run
    installed,    \* the jumper binary is on the PATH
    installCheck, \* position of activate's checkJumperInstalled().then(...)
    sinceCall,    \* ticks since the debounced function's last call (capped)
    timers,       \* the runtime's table of pending setTimeout timers
    timeout,      \* debounce's captured timer handle (0: undefined)
    calls,        \* what is known of the debounced function's calls
    fired         \* how often, and last with which path, debounce ran func

sessionVars == <<pc, stype, quickPick, queries, nIssued, lastFind, rendered,
                 cont, fsOp, diagnostics>>
trackerVars == <<activated, sinceCall, timers, timeout, calls, fired>>
updateVars  == <<lastUpdate, updInFlight, updFailed>>
startupVars == <<installed, installCheck>>
vars == <<config, sessionVars, trackerVars, updateVars, startupVars, messages,
          rejected>>

----------------------------------------------------------------------------
(* Bounds *)

MaxResults  == 2     \* lines in one response of the engine
MaxQueries  == 3     \* executeJumper calls of one session
MaxDelay    == 2     \* largest configured debounceDelay, in ticks
MaxInFlight == 2     \* not-awaited `jumper update` processes at a time
MaxPending  == 2     \* timers in the runtime's table at a time

----------------------------------------------------------------------------
(* JavaScript string operations *)

NL == "NL"
Whitespace == {" ", NL}

RECURSIVE indexOf(_, _, _)
\* String.prototype.indexOf from position i (1-based); 0 when absent
indexOf(s, sub, i) ==
    IF i + Len(sub) - 1 > Len(s) THEN 0
    ELSE IF SubSeq(s, i, i + Len(sub) - 1) = sub THEN i
    ELSE indexOf(s, sub, i + 1)

includes(s, sub) == indexOf(s, sub, 1) # 0

startsWith(s, sub) == Len(s) >= Len(sub) /\ SubSeq(s, 1, Len(sub)) = sub

endsWith(s, sub) ==
    Len(s) >= Len(sub) /\ SubSeq(s, Len(s) - Len(sub) + 1, Len(s)) = sub

\* String.prototype.replace with a string pattern: the first occurrence only
replace(s, sub, by) ==
    LET i == indexOf(s, sub, 1)
    IN  IF i = 0 THEN s
        ELSE SubSeq(s, 1, i - 1) \o by \o SubSeq(s, i + Len(sub), Len(s))

RECURSIVE trimStart(_)
trimStart(s) ==
    IF s # <<>> /\ Head(s) \in Whitespace THEN trimStart(Tail(s)) ELSE s

RECURSIVE trimEnd(_)
trimEnd(s) ==
    IF s # <<>> /\ s[Len(s)] \in Whitespace
    THEN trimEnd(SubSeq(s, 1, Len(s) - 1)) ELSE s

trim(s) == trimEnd(trimStart(s))

RECURSIVE split(_, _)
\* String.prototype.split(sep) for a one-character separator
split(s, sep) ==
    LET i == indexOf(s, <<sep>>, 1)
    IN  IF i = 0 THEN <<s>>
        ELSE <<SubSeq(s, 1, i - 1)>> \o split(SubSeq(s, i + 1, Len(s)), sep)

RECURSIVE filterNonEmpty(_)
filterNonEmpty(ls) ==
    IF ls = <<>> THEN <<>>
    ELSE IF Len(Head(ls)) > 0 THEN <<Head(ls)>> \o filterNonEmpty(Tail(ls))
    ELSE filterNonEmpty(Tail(ls))

RECURSIVE stripTrailingSlashes(_)
stripTrailingSlashes(p) ==
    IF Len(p) > 1 /\ p[Len(p)] = "/"
    THEN stripTrailingSlashes(SubSeq(p, 1, Len(p) - 1)) ELSE p

RECURSIVE lastSegment(_)
lastSegment(p) ==
    LET i == indexOf(p, <<"/">>, 1)
    IN  IF i = 0 THEN p ELSE lastSegment(SubSeq(p, i + 1, Len(p)))

\* path.basename (POSIX)
basename(p) == lastSegment(stripTrailingSlashes(p))

----------------------------------------------------------------------------
(* Inputs: what the engine, the user and the editor can supply *)

Home == <<"/", "h">>        \* process.env.HOME

\* Result lines the engine can print: a home-tilde path, a path whose tilde
\* is not a home tilde, a notebook.
ResultPaths == { <<"~", "/", "a">>, <<"/", "b", "~">>, <<"/", "c", ".ipynb">> }

RECURSIVE SeqsUpTo(_, _)
SeqsUpTo(S, n) ==
    IF n = 0 THEN { <<>> }
    ELSE LET shorter == SeqsUpTo(S, n - 1)
         IN  shorter \cup { Append(q, x) : q \in shorter, x \in S }

ResultLists == SeqsUpTo(ResultPaths, MaxResults)

RECURSIVE Join(_)
\* the engine prints one line per result, each ended by a line feed
Join(ls) == IF ls = <<>> THEN <<>> ELSE Head(ls) \o <<NL>> \o Join(Tail(ls))

\* what a `jumper find` process can end with: failure, or its standard output
FindOutcomes ==
    { [ok |-> FALSE, stdout |-> <<>>] }
    \cup { [ok |-> TRUE, stdout |-> Join(ls)] : ls \in ResultLists }

Texts == { "", "x" }        \* contents of the widget's input box

----------------------------------------------------------------------------
(* database.js *)

\* the settings under jumper.weights, each standing for its configured value
ConfiguredWeights ==
    [visit |-> "w.visit", manualSave |-> "w.manualSave",
     autoSave |-> "w.autoSave", activeEditor |-> "w.activeEditor"]

getWeight(type) ==
    IF type \in DOMAIN config.weights THEN config.weights[type] ELSE "undefined"

shouldTrackFile(filePath) ==
    IF filePath = <<>> THEN FALSE
    ELSE IF includes(filePath, <<":">>) THEN FALSE
    ELSE ~ \E i \in 1..Len(config.excludePatterns) :
              includes(filePath, config.excludePatterns[i])

\* whether updateDatabase reaches its execAsync call
updateDatabaseRuns(pathToUpdate, type) ==
    /\ pathToUpdate # <<>>
    /\ ~ (type = "files" /\ ~ shouldTrackFile(pathToUpdate))

\* a catch block that runs the command once more
updateDatabaseCatchRetrying ==
    [retry |-> TRUE, message |-> FALSE, raise |-> FALSE]

\* updateDatabase without its try block: the failure reaches the caller
updateDatabaseCatchRaising ==
    [retry |-> FALSE, message |-> FALSE, raise |-> TRUE]

\* what updateDatabase does when execAsync fails: the empty catch block
updateDatabaseCatch == [retry |-> FALSE, message |-> FALSE, raise |-> FALSE]

\* checkJumperInstalled whose catch block answers true
checkJumperInstalledOptimistic(found) == TRUE

\* checkJumperInstalled: `which jumper` succeeds (true) or raises (false)
checkJumperInstalled(found) == found

mapTrim(ls) == [i \in 1..Len(ls) |-> trim(ls[i])]

RECURSIVE join(_)
\* args.join(' ')
join(args) ==
    IF Len(args) <= 1 THEN args
    ELSE <<Head(args), " ">> \o join(Tail(args))

\* buildJumperCommand that passes the result cap whatever it holds
buildJumperCommandCapped(type, query) ==
    LET typed  == <<"jumper", "find", "--type=" \o type>>
        capped == typed \o <<"-n", config.maxResults>>
        tilded == IF config.homeTilde THEN Append(capped, "-H") ELSE capped
        rel    == IF config.relative THEN Append(tilded, "-r") ELSE tilded
        syn    == Append(rel, "--syntax=" \o config.syntax)
        cased  == IF config.caseSensitivity = "sensitive"
                  THEN Append(syn, "-S")
                  ELSE IF config.caseSensitivity = "insensitive"
                  THEN Append(syn, "-I") ELSE syn
        args   == IF query # "" THEN Append(cased, "\"" \o query \o "\"")
                  ELSE cased
    IN  join(args)

\* buildJumperCommand(type, query): the command line of a query
buildJumperCommand(type, query) ==
    LET typed  == <<"jumper", "find", "--type=" \o type>>
        capped == IF config.maxResults # "no_limit"
                  THEN typed \o <<"-n", config.maxResults>> ELSE typed
        tilded == IF config.homeTilde THEN Append(capped, "-H") ELSE capped
        rel    == IF config.relative THEN Append(tilded, "-r") ELSE tilded
        syn    == Append(rel, "--syntax=" \o config.syntax)
        cased  == IF config.caseSensitivity = "sensitive"
                  THEN Append(syn, "-S")
                  ELSE IF config.caseSensitivity = "insensitive"
                  THEN Append(syn, "-I") ELSE syn
        args   == IF query # "" THEN Append(cased, "\"" \o query \o "\"")
                  ELSE cased
    IN  join(args)

\* executeJumper with a catch block that raises to the caller
executeJumperRaising(outcome) ==
    IF outcome.ok
    THEN [raised |-> FALSE, logged |-> FALSE,
          value |-> mapTrim(filterNonEmpty(split(trim(outcome.stdout), NL)))]
    ELSE [raised |-> TRUE, logged |-> TRUE, value |-> <<>>]

\* what executeJumper returns for the outcome of its process
executeJumper(outcome) ==
    IF outcome.ok
    THEN [raised |-> FALSE, logged |-> FALSE,
          value |-> mapTrim(filterNonEmpty(split(trim(outcome.stdout), NL)))]
    ELSE [raised |-> FALSE, logged |-> TRUE, value |-> <<>>]

----------------------------------------------------------------------------
(* commands.js *)

\* expandTilde that leaves the home tilde in place
expandTildeKept(filePath) == filePath

expandTilde(filePath) ==
    IF startsWith(filePath, <<"~">>)
    THEN replace(filePath, <<"~">>, Home)
    ELSE filePath

RECURSIVE dedup(_)
dedup(ls) ==
    IF ls = <<>> THEN <<>>
    ELSE LET init == dedup(SubSeq(ls, 1, Len(ls) - 1))
             x    == ls[Len(ls)]
         IN  IF \E i \in 1..Len(init) : init[i] = x THEN init
             ELSE Append(init, x)

\* toItems that drops repeated lines
toItemsDeduplicated(results) ==
    LET rs == dedup(results)
    IN  [i \in 1..Len(rs) |->
            [label |-> basename(rs[i]), description |-> rs[i],
             path |-> rs[i], alwaysShow |-> TRUE]]

\* results.map(itemPath => ({label, description, path, alwaysShow}))
toItems(results) ==
    [i \in 1..Len(results) |->
        [label       |-> basename(results[i]),
         description |-> results[i],
         path        |-> results[i],
         alwaysShow  |-> TRUE]]

\* the widget before createQuickPick, with the editor's defaults
NoQuickPick ==
    [created |-> FALSE, placeholder |-> "", matchOnDescription |-> FALSE,
     matchOnDetail |-> FALSE, sortByLabel |-> TRUE, busy |-> FALSE,
     items |-> <<>>, value |-> "", visible |-> FALSE, disposed |-> FALSE,
     previewEnabled |-> FALSE, handlers |-> {}]

Placeholder(type) ==
    IF type = "files" THEN "Type to search files (jumper query)"
    ELSE "Type to search directories (jumper query)"

NoFsOp == [op |-> "none", path |-> <<>>, item |-> <<>>]

NoCont == [pc |-> "none", selected |-> <<>>, dir |-> <<>>, listed |-> 0,
           files |-> <<>>]

NoUpdate == [type |-> "none", weight |-> "", path |-> <<>>,
             origin |-> [kind |-> "none", scheme |-> "", src |-> <<>>]]

\* a process started again by a call whose first process failed
RetriedUpdate == [NoUpdate EXCEPT !.type = "retry"]

\* updateDatabase up to its await: `started` with the process it starts
updateDatabase(started, pathToUpdate, weight, type, origin) ==
    IF updateDatabaseRuns(pathToUpdate, type)
    THEN Append(started, [type |-> type, weight |-> weight,
                          path |-> pathToUpdate, origin |-> origin])
    ELSE started

\* a `jumper update` process exits: the one jumpToDirectory's continuation
\* awaits (awaited), or one started by a call nobody awaits
UpdateExits(awaited, ok) ==
    LET c     == updateDatabaseCatch
        retry == ~ ok /\ c.retry
        raise == ~ ok /\ c.raise
    IN  /\ IF awaited THEN cont.pc = "updating" ELSE updInFlight > 0
        /\ ok => installed
        /\ updInFlight' =
             IF awaited \/ retry THEN updInFlight ELSE updInFlight - 1
        /\ updFailed' = (updFailed \/ ~ ok)
        /\ lastUpdate' = IF retry THEN RetriedUpdate ELSE lastUpdate
        /\ messages' =
             IF ~ ok /\ c.message THEN Append(messages, "error") ELSE messages
        /\ rejected' = IF raise THEN rejected + 1 ELSE rejected
        \* pickFileInDirectory starts with findFiles on the expanded path
        /\ IF awaited /\ ~ retry /\ ~ raise
           THEN /\ cont' = [cont EXCEPT !.pc = "listing"]
                /\ fsOp' = [op |-> "list", path |-> cont.dir,
                            item |-> cont.selected]
           ELSE IF awaited /\ ~ retry
           THEN /\ cont' = [cont EXCEPT !.pc = "failed"]
                /\ UNCHANGED fsOp
           ELSE UNCHANGED <<cont, fsOp>>
        /\ UNCHANGED <<startupVars, config, pc, stype, quickPick, queries,
                       nIssued, lastFind, rendered, diagnostics, trackerVars>>

\* an updateResults that ends the running queries before it starts its own
startQuerySuperseding(running, id, query) == { [id |-> id, query |-> query] }

\* updateResults calls executeJumper(type, query): one more process runs
startQuery(running, id, query) == running \cup { [id |-> id, query |-> query] }

\* createJumperQuickPick that registers its handlers and shows the widget
\* before it awaits the first updateResults
InvokeCommandShowing(type) ==
    /\ pc = "idle"
    /\ activated
    /\ pc' = "awaitInitial"
    /\ stype' = type
    /\ quickPick' =
         [NoQuickPick EXCEPT
            !.created = TRUE, !.placeholder = Placeholder(type),
            !.matchOnDescription = FALSE, !.matchOnDetail = FALSE,
            !.sortByLabel = FALSE,
            !.previewEnabled = config.previewOnSelection,
            !.busy = TRUE,
            !.handlers = {"onDidChangeValue", "onDidAccept", "onDidHide"},
            !.visible = TRUE]
    /\ queries' = startQuery(queries, 1, "")
    /\ nIssued' = 1
    /\ lastFind' = buildJumperCommand(type, "")
    /\ UNCHANGED <<startupVars, config, rendered, cont, fsOp, messages,
                   diagnostics, rejected, updateVars, trackerVars>>

\* jumpToFile / jumpToDirectory: createJumperQuickPick up to `await
\* updateResults('')`
InvokeCommand(type) ==
    /\ pc = "idle"
    /\ activated
    /\ pc' = "awaitInitial"
    /\ stype' = type
    /\ quickPick' =
         [NoQuickPick EXCEPT
            !.created = TRUE, !.placeholder = Placeholder(type),
            !.matchOnDescription = FALSE, !.matchOnDetail = FALSE,
            !.sortByLabel = FALSE,
            !.previewEnabled = config.previewOnSelection,
            !.busy = TRUE]
    /\ queries' = startQuery(queries, 1, "")
    /\ nIssued' = 1
    /\ lastFind' = buildJumperCommand(type, "")
    /\ UNCHANGED <<startupVars, config, rendered, cont, fsOp, messages,
                   diagnostics, rejected, updateVars, trackerVars>>

\* the rest of updateResults once executeJumper has returned `r`
updateResults(qp, r) == [qp EXCEPT !.items = toItems(r.value), !.busy = FALSE]

\* the rest of createJumperQuickPick after the initial updateResults
registerAndShow(qp) ==
    [qp EXCEPT
       !.handlers = {"onDidChangeValue", "onDidAccept", "onDidHide"}
                      \cup (IF qp.previewEnabled THEN {"onDidChangeActive"}
                            ELSE {}),
       !.visible = TRUE]

\* a `jumper find` process exits and the updateResults that awaits it resumes
QueryResponds(q, outcome) ==
    LET r == executeJumper(outcome)
    IN  /\ q \in queries
        /\ outcome.ok => installed
        /\ queries' = queries \ {q}
        /\ diagnostics' = diagnostics + (IF r.logged THEN 1 ELSE 0)
        /\ IF r.raised
           THEN /\ rejected' = rejected + 1
                /\ pc' = IF pc = "awaitInitial" THEN "raised" ELSE pc
                /\ UNCHANGED <<quickPick, rendered>>
           ELSE /\ quickPick' =
                     IF pc = "awaitInitial"
                     THEN registerAndShow(updateResults(quickPick, r))
                     ELSE updateResults(quickPick, r)
                /\ pc' = IF pc = "awaitInitial" THEN "returned" ELSE pc
                /\ rendered' = [qid |-> q.id, latest |-> nIssued,
                                ok |-> outcome.ok, stdout |-> outcome.stdout]
                /\ UNCHANGED rejected
        /\ UNCHANGED <<startupVars, config, stype, nIssued, lastFind, cont, fsOp,
                       messages, updateVars, trackerVars>>

\* the user edits the input box: onDidChangeValue runs updateResults(value)
ChangeValue(v) ==
    /\ quickPick.visible
    /\ "onDidChangeValue" \in quickPick.handlers
    /\ v # quickPick.value
    /\ nIssued < MaxQueries
    /\ quickPick' = [quickPick EXCEPT !.value = v, !.busy = TRUE]
    /\ queries' = startQuery(queries, nIssued + 1, v)
    /\ nIssued' = nIssued + 1
    /\ lastFind' = buildJumperCommand(stype, v)
    /\ UNCHANGED <<startupVars, config, pc, stype, rendered, cont, fsOp,
                   messages, diagnostics, rejected, updateVars, trackerVars>>

\* the user moves to item i: onDidChangeActive previews it
ChangeActive(i) ==
    /\ quickPick.visible
    /\ "onDidChangeActive" \in quickPick.handlers
    /\ i \in 1..Len(quickPick.items)
    /\ LET activeItem == quickPick.items[i]
       IN  fsOp' =
             IF activeItem.path # <<>> /\ ~ endsWith(activeItem.path, <<".ipynb">>)
             THEN [op |-> "preview", path |-> expandTilde(activeItem.path),
                   item |-> activeItem.path]
             ELSE fsOp
    /\ UNCHANGED <<startupVars, config, pc, stype, quickPick, queries,
                   nIssued, lastFind, rendered, cont, messages, diagnostics, rejected,
                   updateVars, trackerVars>>

\* a hide() that leaves the widget on screen
hideIgnored(qp) == qp

\* quickPick.hide()
hide(qp) == [qp EXCEPT !.visible = FALSE]

\* the onDidHide handler: quickPick.dispose()
dispose(qp) == [qp EXCEPT !.disposed = TRUE]

\* a callback of jumpToFile that records the selected file before opening it
onSelectFileTracked(filePath) ==
    /\ cont' = [NoCont EXCEPT !.pc = "opening", !.selected = filePath]
    /\ fsOp' = [op |-> "open", path |-> expandTilde(filePath),
                              item |-> filePath]
    /\ lastUpdate' = [type |-> "files", weight |-> getWeight("visit"),
                      path |-> expandTilde(filePath),
                      origin |-> [kind |-> "select", scheme |-> "file",
                                  src |-> filePath]]
    /\ updInFlight' = updInFlight + 1
    /\ UNCHANGED updFailed

\* the onSelect callback of jumpToFile, up to its await
onSelectFile(filePath) ==
    /\ cont' = [NoCont EXCEPT !.pc = "opening", !.selected = filePath]
    /\ fsOp' = [op |-> "open", path |-> expandTilde(filePath),
                              item |-> filePath]
    /\ UNCHANGED updateVars

\* the onSelect callback of jumpToDirectory, up to its first await
onSelectDirectory(dirPath) ==
    LET expandedPath == expandTilde(dirPath)
        started == updateDatabase(<<>>, expandedPath, getWeight("visit"),
                                  "directories",
                                  [kind |-> "select", scheme |-> "file",
                                   src |-> dirPath])
    IN  /\ UNCHANGED <<updInFlight, updFailed>>
        /\ IF started # <<>>
           THEN /\ lastUpdate' = started[1]
                /\ cont' = [NoCont EXCEPT !.pc = "updating",
                              !.selected = dirPath, !.dir = expandedPath]
                /\ UNCHANGED fsOp
           ELSE /\ UNCHANGED lastUpdate
                /\ cont' = [NoCont EXCEPT !.pc = "listing",
                              !.selected = dirPath, !.dir = expandedPath]
                /\ fsOp' = [op |-> "list", path |-> expandedPath,
                            item |-> dirPath]

\* the user accepts with item i selected, or with none (i = 0): onDidAccept
Accept(i) ==
    /\ quickPick.visible
    /\ "onDidAccept" \in quickPick.handlers
    /\ i \in 0..Len(quickPick.items)
    /\ LET selectedItems == IF i = 0 THEN <<>> ELSE << quickPick.items[i] >>
           selected == selectedItems[1]
       IN  IF selectedItems # <<>> /\ selected.path # <<>>
           THEN \* the editor delivers onDidHide within hide() or later
                /\ \E within \in BOOLEAN :
                      quickPick' = IF within THEN dispose(hide(quickPick))
                                   ELSE hide(quickPick)
                /\ IF stype = "files"
                   THEN onSelectFile(selected.path)
                   ELSE onSelectDirectory(selected.path)
           ELSE UNCHANGED <<quickPick, cont, fsOp, updateVars>>
    /\ UNCHANGED <<startupVars, config, pc, stype, queries, nIssued, lastFind, rendered,
                   messages, diagnostics, rejected, trackerVars>>

\* the user dismisses the widget: the editor hides it and delivers onDidHide
Hide ==
    /\ quickPick.visible
    /\ quickPick' = dispose(hide(quickPick))
    /\ UNCHANGED <<startupVars, config, pc, stype, queries, nIssued, lastFind, rendered,
                   cont, fsOp, messages, diagnostics, rejected, updateVars,
                   trackerVars>>

\* onDidHide delivered after a quickPick.hide() that had returned before it
DidHide ==
    /\ "onDidHide" \in quickPick.handlers
    /\ ~ quickPick.visible
    /\ ~ quickPick.disposed
    /\ quickPick' = dispose(quickPick)
    /\ UNCHANGED <<startupVars, config, pc, stype, queries, nIssued, lastFind, rendered,
                   cont, fsOp, messages, diagnostics, rejected, updateVars,
                   trackerVars>>

MAX_FILES_IN_DIRECTORY == 1000

\* numbers of files a directory can hold below it
DirectorySizes == { 0, 1, MAX_FILES_IN_DIRECTORY, MAX_FILES_IN_DIRECTORY + 1 }

\* findFiles that returns every file it finds
findFilesUncapped(dir, size, maxResults) ==
    [ok |-> TRUE, listed |-> size,
     files |-> IF size = 0 THEN <<>> ELSE << dir \o <<"/", "f">> >>]

\* workspace.findFiles(include, exclude, maxResults) in a directory with
\* `size` files: the number of uris it returns, and the first of them
findFiles(dir, size, maxResults) ==
    LET n == IF size <= maxResults THEN size ELSE maxResults
    IN  [ok |-> TRUE, listed |-> n,
         files |-> IF n = 0 THEN <<>> ELSE << dir \o <<"/", "f">> >>]

\* what the findFiles call of pickFileInDirectory can end with
ListOutcomes(dir) ==
    { [ok |-> FALSE, listed |-> 0, files |-> <<>>] }
    \cup { findFiles(dir, size, MAX_FILES_IN_DIRECTORY) :
              size \in DirectorySizes }

\* pickFileInDirectory after findFiles
ListCompletes(o) ==
    /\ cont.pc = "listing"
    /\ o \in ListOutcomes(cont.dir)
    /\ IF ~ o.ok
       THEN /\ cont' = [cont EXCEPT !.pc = "failed"]
            /\ rejected' = rejected + 1
            /\ UNCHANGED messages
       ELSE IF o.listed = 0
       THEN /\ cont' = [cont EXCEPT !.pc = "done"]
            /\ messages' = Append(messages, "info")
            /\ UNCHANGED rejected
       ELSE /\ cont' = [cont EXCEPT !.pc = "picking", !.listed = o.listed,
                                  !.files = o.files]
            /\ UNCHANGED <<messages, rejected>>
    /\ UNCHANGED <<startupVars, config, pc, stype, quickPick, queries,
                   nIssued, lastFind, rendered, fsOp, diagnostics, updateVars,
                   trackerVars>>

\* pickFileInDirectory after showQuickPick: k = 0 is a dismissal
NestedPick(k) ==
    /\ cont.pc = "picking"
    /\ k \in 0..Len(cont.files)
    /\ IF k = 0
       THEN /\ cont' = [cont EXCEPT !.pc = "done"]
            /\ UNCHANGED fsOp
       ELSE /\ cont' = [cont EXCEPT !.pc = "openingNested"]
            /\ fsOp' = [op |-> "open", path |-> cont.files[k],
                                      item |-> cont.selected]
    /\ UNCHANGED <<startupVars, config, pc, stype, quickPick, queries,
                   nIssued, lastFind, rendered, messages, diagnostics, rejected,
                   updateVars, trackerVars>>

\* openFileInNewTab ends; only jumpToFile's callback catches its failure
OpenCompletes(ok) ==
    /\ cont.pc \in {"opening", "openingNested"}
    /\ IF ok
       THEN /\ cont' = [cont EXCEPT !.pc = "done"]
            /\ UNCHANGED <<messages, rejected>>
       ELSE IF cont.pc = "opening"
       THEN /\ cont' = [cont EXCEPT !.pc = "done"]
            /\ messages' = Append(messages, "error")
            /\ UNCHANGED rejected
       ELSE /\ cont' = [cont EXCEPT !.pc = "failed"]
            /\ rejected' = rejected + 1
            /\ UNCHANGED messages
    /\ UNCHANGED <<startupVars, config, pc, stype, quickPick, queries,
                   nIssued, lastFind, rendered, fsOp, diagnostics, updateVars,
                   trackerVars>>

----------------------------------------------------------------------------
(* extension.js *)

\* documents, editors and workspace folders the editor can report
Uris ==
    { [scheme |-> "file", fsPath |-> <<"/", "a">>],
      [scheme |-> "file", fsPath |-> <<"/", "n", "/", "a">>],
      [scheme |-> "file", fsPath |-> <<"/", "c", ":">>],
      [scheme |-> "vfs",  fsPath |-> <<"/", "r">>] }

SaveReasons == { "Manual", "AfterDelay", "FocusOut" }

Origin(kind, uri) == [kind |-> kind, scheme |-> uri.scheme, src |-> uri.fsPath]

\* the processes started by a handler's updateDatabase calls, none awaited
Dispatch(started) ==
    /\ updInFlight + Len(started) <= MaxInFlight
    /\ updInFlight' = updInFlight + Len(started)
    /\ lastUpdate' = IF started = <<>> THEN lastUpdate
                     ELSE started[Len(started)]
    /\ UNCHANGED updFailed

RECURSIVE forEachFolder(_, _, _)
\* folders.forEach(folder => updateDatabase(folder.uri.fsPath, visit, 'directories'))
forEachFolder(started, folders, kind) ==
    IF folders = <<>> THEN started
    ELSE forEachFolder(
            updateDatabase(started, Head(folders).fsPath, getWeight("visit"),
                           "directories", Origin(kind, Head(folders))),
            Tail(folders), kind)

FolderLists == SeqsUpTo(Uris, 2)

\* activate(context), with the workspace folders open at that time
Activate(workspaceFolders) ==
    /\ ~ activated
    /\ activated' = TRUE
    /\ installCheck' = "running"
    /\ Dispatch(forEachFolder(<<>>, workspaceFolders, "activation"))
    /\ UNCHANGED <<installed, config, sessionVars, messages, rejected,
                   sinceCall, timers, timeout, calls, fired>>

\* `which jumper` has exited and the callback given to then() runs
CheckInstalledExits ==
    /\ installCheck = "running"
    /\ installCheck' = "done"
    /\ messages' = IF ~ checkJumperInstalled(installed)
                   THEN Append(messages, "notInstalled") ELSE messages
    /\ UNCHANGED <<installed, config, sessionVars, trackerVars, updateVars,
                   rejected>>

\* trackOpen(uri): the processes it starts
trackOpen(uri) ==
    IF uri.scheme = "file"
    THEN updateDatabase(<<>>, uri.fsPath, getWeight("visit"), "files",
                        Origin("open", uri))
    ELSE <<>>

\* trackSave with the two save weights exchanged
trackSaveSwapped(uri, reason) ==
    IF uri.scheme = "file"
    THEN updateDatabase(<<>>, uri.fsPath,
                        IF reason = "Manual" THEN getWeight("autoSave")
                        ELSE getWeight("manualSave"),
                        "files", Origin("save", uri))
    ELSE <<>>

\* trackSave(uri, reason): the processes it starts
trackSave(uri, reason) ==
    IF uri.scheme = "file"
    THEN updateDatabase(<<>>, uri.fsPath,
                        IF reason = "Manual" THEN getWeight("manualSave")
                        ELSE getWeight("autoSave"),
                        "files", Origin("save", uri))
    ELSE <<>>

\* onDidOpenTextDocument / onDidOpenNotebookDocument
OpenDocument(uri) ==
    /\ activated
    /\ Dispatch(trackOpen(uri))
    /\ UNCHANGED <<startupVars, config, sessionVars, messages, rejected,
                   trackerVars>>

\* onWillSaveTextDocument / onWillSaveNotebookDocument
WillSave(uri, reason) ==
    /\ activated
    /\ Dispatch(trackSave(uri, reason))
    /\ UNCHANGED <<startupVars, config, sessionVars, messages, rejected,
                   trackerVars>>

\* the events of onDidChangeWorkspaceFolders: folders added and removed
FolderEvents ==
    { [added |-> a, removed |-> r] :
        a \in FolderLists,
        r \in SeqsUpTo({ u \in Uris : u.fsPath = <<"/", "a">> }, 1) }

\* those that remove no folder
AddedEvents == { event \in FolderEvents : event.removed = <<>> }

\* a listener that goes through the removed folders as well
ChangeWorkspaceFoldersBoth(event) ==
    /\ activated
    /\ Dispatch(forEachFolder(<<>>, event.added \o event.removed, "folder"))
    /\ UNCHANGED <<startupVars, config, sessionVars, messages, rejected,
                   trackerVars>>

\* onDidChangeWorkspaceFolders
ChangeWorkspaceFolders(event) ==
    /\ activated
    /\ Dispatch(forEachFolder(<<>>, event.added, "folder"))
    /\ UNCHANGED <<startupVars, config, sessionVars, messages, rejected,
                   trackerVars>>

clearTimeout(table, handle) == { t \in table : t.id # handle }

\* a handle the runtime has not in use
FreshHandle(table, handle) ==
    CHOOSE id \in 1..(MaxPending + 2) :
        id # handle /\ \A t \in table : t.id # id

\* executedFunction without the clearTimeout of the pending timer
executedFunctionKeeping(table, handle, id, wait, args) ==
    table \cup { [id |-> id, left |-> wait, args |-> args] }

\* executedFunction that asks for a timer one tick short of `wait`
executedFunctionEarly(table, handle, id, wait, args) ==
    clearTimeout(table, handle)
        \cup { [id |-> id, left |-> wait - 1, args |-> args] }

\* debounce's executedFunction: the timer table after
\* clearTimeout(timeout); timeout = setTimeout(later, wait)
executedFunction(table, handle, id, wait, args) ==
    clearTimeout(table, handle)
        \cup { [id |-> id, left |-> wait, args |-> args] }

\* the listeners' test without the comparison of the scheme
tracksEditorOfAnyScheme(editor) == editor # <<>>

\* editor?.document.uri.scheme === 'file'; `editor` is <<>> when no editor
\* is active, else <<uri>>
tracksEditor(editor) == editor # <<>> /\ editor[1].scheme = "file"

\* the two listeners that call debouncedActiveEditorUpdate:
\* onDidChangeActiveTextEditor and onDidChangeActiveNotebookEditor
Listeners == { "text", "notebook" }

\* onDidChangeActiveTextEditor / onDidChangeActiveNotebookEditor
ChangeActiveEditor(listener, editor) ==
    /\ activated
    /\ IF tracksEditor(editor)
       THEN LET id == FreshHandle(timers, timeout)
            IN  /\ timers' = executedFunction(timers, timeout, id,
                                              config.debounceDelay,
                                              editor[1].fsPath)
                /\ Cardinality(timers') <= MaxPending
                /\ timeout' = id
                /\ sinceCall' = 0
                /\ calls' = [any   |-> TRUE,
                             replaced |-> calls.replaced \/ timers # {},
                             path  |-> editor[1].fsPath,
                             close |-> calls.close
                                         /\ (~ calls.any
                                              \/ sinceCall < config.debounceDelay),
                             skipped |-> FALSE,
                             listener |-> listener,
                             crossed |-> timers # {}
                                           /\ calls.listener # listener]
       ELSE /\ calls' = [calls EXCEPT !.skipped = @ \/ timers # {}]
            /\ UNCHANGED <<timers, timeout, sinceCall>>
    /\ UNCHANGED <<startupVars, config, sessionVars, messages, rejected,
                   updateVars, activated, fired>>

\* a timer has run down and the runtime runs debounce's `later`:
\* clearTimeout(timeout); func(...args), func being the tracker's callback
TimerFires(t) ==
    /\ t \in timers
    /\ t.left = 0
    /\ timers' = clearTimeout(timers \ {t}, timeout)
    /\ fired' = [n |-> IF fired.n < 2 THEN fired.n + 1 ELSE 2, path |-> t.args]
    /\ calls' = [calls EXCEPT !.skipped = FALSE]
    /\ Dispatch(updateDatabase(<<>>, t.args, getWeight("activeEditor"), "files",
                               [kind |-> "active", scheme |-> "file",
                                src |-> t.args]))
    /\ UNCHANGED <<startupVars, config, sessionVars, messages, rejected,
                   activated, sinceCall, timeout>>

\* one unit of time passes; a timer that has run down may still fire late
Tick ==
    /\ sinceCall' = IF sinceCall < config.debounceDelay THEN sinceCall + 1
                    ELSE sinceCall
    /\ timers' = { [t EXCEPT !.left = IF @ > 0 THEN @ - 1 ELSE 0] : t \in timers }
    /\ UNCHANGED <<startupVars, config, sessionVars, messages, rejected,
                   updateVars, activated, timeout, calls, fired>>

----------------------------------------------------------------------------
(* Specifications *)

\* configured excludePatterns: the glob **/n/**
ExcludeLists == { << <<"*", "*", "/", "n", "/", "*", "*">> >> }

InitConfig(preview, excludes, delay) ==
    [previewOnSelection |-> preview, excludePatterns |-> excludes,
     debounceDelay |-> delay, weights |-> ConfiguredWeights,
     maxResults |-> "300", homeTilde |-> TRUE, relative |-> FALSE,
     syntax |-> "extended", caseSensitivity |-> "default"]

InitRest ==
    /\ pc = "idle"
    /\ stype = "none"
    /\ quickPick = NoQuickPick
    /\ queries = {}
    /\ nIssued = 0
    /\ lastFind = <<>>
    /\ rendered = [qid |-> 0, latest |-> 0, ok |-> TRUE, stdout |-> <<>>]
    /\ cont = NoCont
    /\ fsOp = NoFsOp
    /\ messages = <<>>
    /\ diagnostics = 0
    /\ rejected = 0
    /\ lastUpdate = NoUpdate
    /\ updInFlight = 0
    /\ updFailed = FALSE
    /\ sinceCall = 0
    /\ timers = {}
    /\ timeout = 0
    /\ calls = [any |-> FALSE, replaced |-> FALSE, path |-> <<>>,
                close |-> TRUE, skipped |-> FALSE, listener |-> "none",
                crossed |-> FALSE]
    /\ fired = [n |-> 0, path |-> <<>>]

\* the search session of an activated extension
InitSearch ==
    /\ \E preview \in BOOLEAN : config = InitConfig(preview, <<>>, 1)
    /\ activated = TRUE
    /\ installed = TRUE
    /\ installCheck = "done"
    /\ InitRest

NextSearch ==
    \/ \E type \in {"files", "directories"} : InvokeCommand(type)
    \/ \E q \in queries, o \in FindOutcomes : QueryResponds(q, o)
    \/ \E v \in Texts : ChangeValue(v)
    \/ \E i \in 1..MaxResults : ChangeActive(i)
    \/ \E i \in 0..MaxResults : Accept(i)
    \/ Hide
    \/ DidHide
    \/ \E ok \in BOOLEAN : UpdateExits(TRUE, ok)
    \/ \E o \in ListOutcomes(cont.dir) : ListCompletes(o)
    \/ \E k \in 0..1 : NestedPick(k)
    \/ \E ok \in BOOLEAN : OpenCompletes(ok)

SpecSearch == InitSearch /\ [][NextSearch]_vars

\* activation and the usage tracking listeners, the binary being installed
\* (the end of activate's installation check is followed under SpecStartup)
\* (the notebook listener of the active editor under SpecDebounce)
InitTrack ==
    /\ \E excludes \in ExcludeLists :
          config = InitConfig(FALSE, excludes, MaxDelay)
    /\ activated = FALSE
    /\ installed = TRUE
    /\ installCheck = "idle"
    /\ InitRest

NextTrack ==
    \/ \E folders \in FolderLists : Activate(folders)
    \/ \E uri \in Uris : OpenDocument(uri)
    \/ \E uri \in Uris, reason \in SaveReasons : WillSave(uri, reason)
    \/ \E event \in AddedEvents : ChangeWorkspaceFolders(event)
    \/ \E listener \in {"text"}, editor \in SeqsUpTo(Uris, 1) :
          ChangeActiveEditor(listener, editor)
    \/ \E t \in timers : TimerFires(t)
    \/ Tick
    \/ \E ok \in BOOLEAN : UpdateExits(FALSE, ok)

SpecTrack == InitTrack /\ [][NextTrack]_vars

\* activation with or without the binary, and what can be attempted after it
InitStartup ==
    /\ \E excludes \in ExcludeLists :
          config = InitConfig(FALSE, excludes, MaxDelay)
    /\ activated = FALSE
    /\ installed \in BOOLEAN
    /\ installCheck = "idle"
    /\ InitRest

NextStartup ==
    \/ \E folders \in FolderLists : Activate(folders)
    \/ CheckInstalledExits
    \/ \E uri \in Uris : OpenDocument(uri)
    \/ \E ok \in BOOLEAN : UpdateExits(FALSE, ok)
    \/ \E type \in {"files", "directories"} : InvokeCommand(type)
    \/ \E q \in queries, o \in FindOutcomes : QueryResponds(q, o)
    \/ Hide

SpecStartup == InitStartup /\ [][NextStartup]_vars

\* the debounced active editor tracker of an activated extension; the event
\* loop runs a timer that is due, and a started process exits
InitDebounce ==
    /\ config = InitConfig(FALSE, <<>>, MaxDelay)
    /\ activated = TRUE
    /\ installed = TRUE
    /\ installCheck = "done"
    /\ InitRest

NextDebounce ==
    \/ \E listener \in Listeners, editor \in SeqsUpTo(Uris, 1) :
          ChangeActiveEditor(listener, editor)
    \/ \E t \in timers : TimerFires(t)
    \/ Tick
    \/ \E ok \in BOOLEAN : UpdateExits(FALSE, ok)

SpecDebounce ==
    /\ InitDebounce
    /\ [][NextDebounce]_vars
    /\ WF_vars(\E t \in timers : TimerFires(t))
    /\ WF_vars(\E ok \in BOOLEAN : UpdateExits(FALSE, ok))

\* what the settings under jumper.weights can hold: a non-negative number
\* each, a negative number in one of them, or no value for one of them
NegativeWeight == "w.negative"

WeightTables ==
    { ConfiguredWeights, [ConfiguredWeights EXCEPT !.visit = NegativeWeight] }
    \cup { [j \in DOMAIN ConfiguredWeights \ {k} |-> ConfiguredWeights[j]] :
              k \in DOMAIN ConfiguredWeights }

\* the tracking listeners of an activated extension under each of them
InitWeights ==
    /\ \E weights \in WeightTables :
          config = [InitConfig(FALSE, <<>>, 1) EXCEPT !.weights = weights]
    /\ activated = TRUE
    /\ installed = TRUE
    /\ installCheck = "done"
    /\ InitRest

NextWeights ==
    \/ \E uri \in Uris : OpenDocument(uri)
    \/ \E uri \in Uris, reason \in SaveReasons : WillSave(uri, reason)
    \/ \E event \in AddedEvents : ChangeWorkspaceFolders(event)
    \/ \E listener \in {"text"}, editor \in SeqsUpTo(Uris, 1) :
          ChangeActiveEditor(listener, editor)
    \/ \E t \in timers : TimerFires(t)
    \/ Tick
    \/ \E ok \in BOOLEAN : UpdateExits(FALSE, ok)

SpecWeights == InitWeights /\ [][NextWeights]_vars

\* lines a `jumper find` process can write besides plain paths: a blank
\* line, a path between blanks, a path between colour escape sequences
MaxLines == 3

Ansi == "ESC[32m"

RawLines ==
    { <<"/", "a">>, <<" ">>, <<" ", "/", "b", " ">>, <<Ansi, "/", "c", Ansi>> }

RawOutcomes ==
    { [ok |-> FALSE, stdout |-> <<>>] }
    \cup { [ok |-> TRUE, stdout |-> Join(ls)] : ls \in SeqsUpTo(RawLines, MaxLines) }

\* search sessions whose first query is answered with such output
NextParse ==
    \/ \E type \in {"files", "directories"} : InvokeCommand(type)
    \/ \E q \in queries, o \in RawOutcomes : QueryResponds(q, o)
    \/ Hide

SpecParse == InitSearch /\ [][NextParse]_vars

\* the values the settings read by buildJumperCommand can hold
Options ==
    [maxResults |-> {"300", "no_limit"}, homeTilde |-> BOOLEAN,
     relative |-> BOOLEAN, syntax |-> {"extended", "fuzzy"},
     caseSensitivity |-> {"default", "sensitive", "insensitive"}]

\* the user changes one of these settings; getConfiguration is called anew
\* by every buildJumperCommand, so the next one reads the new value
ChangeConfiguration(option, value) ==
    /\ value # config[option]
    /\ config' = [config EXCEPT ![option] = value]
    /\ UNCHANGED <<startupVars, sessionVars, trackerVars, updateVars,
                   messages, rejected>>

\* search sessions during which the settings change; the engine finds nothing
NextCommand ==
    \/ \E type \in {"files", "directories"} : InvokeCommand(type)
    \/ \E q \in queries, o \in { f \in FindOutcomes : f.stdout = <<>> } :
          QueryResponds(q, o)
    \/ \E v \in Texts : ChangeValue(v)
    \/ \E option \in DOMAIN Options :
          \E value \in Options[option] : ChangeConfiguration(option, value)
    \/ Hide

InitCommand ==
    /\ config = InitConfig(FALSE, <<>>, 1)
    /\ activated = TRUE
    /\ installed = TRUE
    /\ installCheck = "done"
    /\ InitRest

SpecCommand == InitCommand /\ [][NextCommand]_vars

\* activation, with or without the binary, and the workspace folders, with
\* documents opened and saved
NextFolders ==
    \/ \E folders \in FolderLists : Activate(folders)
    \/ \E event \in FolderEvents : ChangeWorkspaceFolders(event)
    \/ \E uri \in Uris : OpenDocument(uri)
    \/ \E uri \in Uris, reason \in SaveReasons : WillSave(uri, reason)
    \/ CheckInstalledExits
    \/ \E ok \in BOOLEAN : UpdateExits(FALSE, ok)

SpecFolders == InitStartup /\ [][NextFolders]_vars

----------------------------------------------------------------------------
(* Claims about the search session, checked under SpecSearch *)

FailedFind == [ok |-> FALSE, stdout |-> <<>>]

\* the lines the engine printed, read off its output without the parser
PrintedLines(stdout) == CHOOSE ls \in ResultLists : Join(ls) = stdout

ItemPaths(items) == [i \in 1..Len(items) |-> items[i].path]

\* C1: a response is written to the widget's items if and only if the query
\* it answers is the most recently issued one when it arrives; a response to
\* an earlier query leaves the rendered items unchanged.
C1_OnlyLatestResponseRendered ==
    [][\A q \in queries, o \in FindOutcomes :
          QueryResponds(q, o) =>
             IF q.id = nIssued
             THEN quickPick'.items = toItems(executeJumper(o).value)
             ELSE quickPick'.items = quickPick.items]_vars

\* C2: once every issued query has responded, the rendered list is the
\* response to the last-issued query.
C2_SettledShowsLastIssued ==
    (nIssued > 0 /\ queries = {}) => rendered.qid = nIssued

\* C4: a closed session is terminal: it issues no query, and a response that
\* arrives afterwards neither writes to the disposed widget nor changes the
\* session's state.
C4_ClosedIsTerminal ==
    [][quickPick.disposed =>
          /\ nIssued' = nIssued
          /\ quickPick' = quickPick
          /\ rendered' = rendered]_vars

\* C8: a failed find makes executeJumper return the empty sequence without
\* raising; the session renders the empty list, clears busy, shows no
\* message and is not closed by it.
C8_FailedFindRendersEmpty ==
    [][\A q \in queries :
          QueryResponds(q, FailedFind) =>
             /\ executeJumper(FailedFind).value = <<>>
             /\ rejected' = rejected
             /\ messages' = messages
             /\ quickPick'.items = <<>>
             /\ quickPick'.busy = FALSE
             /\ quickPick'.disposed = quickPick.disposed
             /\ quickPick'.visible = (quickPick.visible \/ pc = "awaitInitial")
             /\ pc' = "returned"]_vars

C8_Witness ==
    /\ rendered.qid > 1
    /\ ~ rendered.ok
    /\ quickPick.visible
    /\ quickPick.items = <<>>
    /\ ~ quickPick.busy
    /\ diagnostics > 0

\* C9: the rendered items are, element for element and in order, the lines
\* the engine printed (repeated lines included), and the widget's own
\* sorting and filtering are switched off.
C9_RenderedAsReceived ==
    /\ (rendered.qid > 0 /\ rendered.ok) =>
          ItemPaths(quickPick.items) = PrintedLines(rendered.stdout)
    /\ quickPick.created =>
          /\ ~ quickPick.sortByLabel
          /\ ~ quickPick.matchOnDescription
          /\ ~ quickPick.matchOnDetail
          /\ \A i \in 1..Len(quickPick.items) : quickPick.items[i].alwaysShow

C9_Witness ==
    /\ quickPick.visible
    /\ Len(quickPick.items) = 2
    /\ quickPick.items[1].path = quickPick.items[2].path
    /\ rendered.stdout = Join(<< <<"/", "b", "~">>, <<"/", "b", "~">> >>)

\* the home directory in place of the leading tilde
Expanded(p) == Home \o Tail(p)

\* C10: for a result path with a home tilde, every path handed to a
\* filesystem operation (open, listing, preview, the directory-visit update)
\* has the tilde expanded to the home directory, while the item's
\* description keeps the tilde form the engine printed.
C10_TildeExpandedForFilesystemOnly ==
    /\ (fsOp.op # "none" /\ startsWith(fsOp.item, <<"~">>)) =>
          /\ startsWith(fsOp.path, Expanded(fsOp.item))
          /\ ~ includes(fsOp.path, <<"~">>)
          \* only a file of the nested listing lies below the expanded path
          /\ ~ (stype = "directories" /\ fsOp.op = "open") =>
                fsOp.path = Expanded(fsOp.item)
    /\ (lastUpdate.origin.kind = "select"
          /\ startsWith(lastUpdate.origin.src, <<"~">>)) =>
             lastUpdate.path = Expanded(lastUpdate.origin.src)
    /\ (rendered.qid > 0 /\ rendered.ok) =>
          \A i \in 1..Len(quickPick.items) :
             /\ quickPick.items[i].description = PrintedLines(rendered.stdout)[i]
             /\ startsWith(PrintedLines(rendered.stdout)[i], <<"~">>) =>
                   startsWith(quickPick.items[i].description, <<"~">>)

C10_Witness ==
    /\ fsOp.op = "list"
    /\ fsOp.item = <<"~", "/", "a">>
    /\ fsOp.path = <<"/", "h", "/", "a">>
    /\ lastUpdate.path = <<"/", "h", "/", "a">>
    /\ \E i \in 1..Len(quickPick.items) :
          quickPick.items[i].description = <<"~", "/", "a">>

----------------------------------------------------------------------------
(* Claims about usage tracking, checked under SpecTrack *)

RECURSIVE globMatch(_, _)
\* the editor's glob matching: ** is any run of characters, * any run
\* without a slash, every other character itself
globMatch(pat, str) ==
    IF pat = <<>> THEN str = <<>>
    ELSE IF Len(pat) >= 2 /\ pat[1] = "*" /\ pat[2] = "*"
    THEN \E k \in 0..Len(str) :
            globMatch(SubSeq(pat, 3, Len(pat)), SubSeq(str, k + 1, Len(str)))
    ELSE IF pat[1] = "*"
    THEN \E k \in 0..Len(str) :
            /\ ~ includes(SubSeq(str, 1, k), <<"/">>)
            /\ globMatch(Tail(pat), SubSeq(str, k + 1, Len(str)))
    ELSE /\ str # <<>>
         /\ str[1] = pat[1]
         /\ globMatch(Tail(pat), Tail(str))

MatchesExclusion(p) ==
    \E i \in 1..Len(config.excludePatterns) :
        globMatch(config.excludePatterns[i], p)

C5_ExcludedNeverUpdated ==
    lastUpdate.type # "none" =>
        /\ ~ includes(lastUpdate.path, <<":">>)
        /\ ~ MatchesExclusion(lastUpdate.path)

\* C6: no `jumper update` process is ever started for an event whose uri
\* scheme is not `file`, whatever the event's kind.
C6_OnlyRealFilesUpdated ==
    lastUpdate.type # "none" => lastUpdate.origin.scheme = "file"

\* C7: an updateDatabase call starts at most one process, and when that
\* process fails nothing follows: no further process, no message, no
\* raised error and no change to any other state.
C7_FailedUpdateSwallowed ==
    /\ [](\A uri \in Uris, reason \in SaveReasons :
            /\ Len(trackOpen(uri)) <= 1
            /\ Len(trackSave(uri, reason)) <= 1
            /\ Len(updateDatabase(<<>>, uri.fsPath, getWeight("activeEditor"),
                                   "files", Origin("active", uri))) <= 1)
    /\ [][UpdateExits(FALSE, FALSE) =>
            /\ updInFlight' = updInFlight - 1
            /\ UNCHANGED <<lastUpdate, messages, rejected, config,
                           sessionVars, trackerVars>>]_vars

C7_Witness ==
    /\ updFailed
    /\ lastUpdate.type = "files"
    /\ updInFlight = 0
    /\ messages = <<>>
    /\ rejected = 0

\* the `jumper update --type=files` process of an open or save event
FilesUpdate(kind, uri, weight) ==
    [type |-> "files", weight |-> weight, path |-> uri.fsPath,
     origin |-> Origin(kind, uri)]

SaveWeight(reason) ==
    IF reason = "Manual" THEN config.weights.manualSave
    ELSE config.weights.autoSave

\* C11 as stated: every open event of a file-scheme document starts exactly
\* one files update with the visit (open) weight, and every will-save event
\* exactly one with the manual-save weight for a manual save and the
\* auto-save weight for any other reason.  (A handler that starts no process
\* changes no variable, so the statement is about what the handlers start.)
C11_EveryOpenAndSaveDispatchesOne ==
    \A uri \in Uris :
        uri.scheme = "file" =>
            /\ trackOpen(uri) = << FilesUpdate("open", uri, config.weights.visit) >>
            /\ \A reason \in SaveReasons :
                  trackSave(uri, reason) =
                      << FilesUpdate("save", uri, SaveWeight(reason)) >>

\* C11, amended: the same for every file-scheme path that shouldTrackFile
\* accepts, and the process is started within the step that handles the
\* event, so processes start in the order of the events.
C11_TrackedOpenAndSaveDispatchOne ==
    /\ [](\A uri \in Uris :
            (uri.scheme = "file" /\ shouldTrackFile(uri.fsPath)) =>
                /\ trackOpen(uri) =
                      << FilesUpdate("open", uri, config.weights.visit) >>
                /\ \A reason \in SaveReasons :
                      trackSave(uri, reason) =
                          << FilesUpdate("save", uri, SaveWeight(reason)) >>)
    /\ [][\A uri \in Uris :
            (uri.scheme = "file" /\ shouldTrackFile(uri.fsPath)) =>
                /\ OpenDocument(uri) =>
                      /\ lastUpdate' =
                            FilesUpdate("open", uri, config.weights.visit)
                      /\ updInFlight' = updInFlight + 1
                /\ \A reason \in SaveReasons :
                      WillSave(uri, reason) =>
                          /\ lastUpdate' =
                                FilesUpdate("save", uri, SaveWeight(reason))
                          /\ updInFlight' = updInFlight + 1]_vars

\* an auto-save update of /a started while an earlier update is still running
C11_Witness ==
    /\ lastUpdate =
          FilesUpdate("save", [scheme |-> "file", fsPath |-> <<"/", "a">>],
                      config.weights.autoSave)
    /\ updInFlight = 2

----------------------------------------------------------------------------
(* Further claims about the search session, checked under SpecSearch *)

\* C12: a search command returns to its invoker only after the user has
\* selected an item or dismissed the widget: it has not returned while the
\* widget is still open.
C12_ReturnsAfterSelectionOrCancel ==
    pc = "returned" => (~ quickPick.visible /\ quickPick.disposed)

\* C13 as stated: when the continuation of an accepted item starts, the
\* widget is already hidden and disposed.
C13_ClosedBeforeContinuation ==
    cont.pc # "none" => (~ quickPick.visible /\ quickPick.disposed)

\* C13, amended: accepting with an item selected hides the widget and then
\* starts the continuation with that item's path, queries in flight or not;
\* the widget is hidden whenever a continuation has started, and its
\* disposal is the onDidHide handler's, whenever the editor delivers it.
C13_HiddenBeforeContinuation ==
    /\ [](cont.pc # "none" =>
             /\ ~ quickPick.visible
             /\ quickPick.disposed \/ ENABLED DidHide)
    /\ [][(cont.pc = "none" /\ cont'.pc # "none") =>
             /\ quickPick.visible
             /\ ~ quickPick'.visible
             /\ cont'.selected # <<>>
             /\ \E i \in 1..Len(quickPick.items) :
                   quickPick.items[i].path = cont'.selected]_vars

\* a continuation has started while a query is in flight and onDidHide has
\* not been delivered yet
C13_Witness ==
    /\ cont.pc = "opening"
    /\ cont.selected = <<"~", "/", "a">>
    /\ queries # {}
    /\ ~ quickPick.visible
    /\ ~ quickPick.disposed

\* C14: when opening the selected path fails, or listing the selected
\* directory fails, exactly one user-visible message is shown and the closed
\* widget is not shown again, in the file search as in the directory search.
C14_OpenFailureSurfacedOnce ==
    [][(OpenCompletes(FALSE)
          \/ ListCompletes([ok |-> FALSE, files |-> <<>>])) =>
            /\ messages' = Append(messages, "error")
            /\ ~ quickPick'.visible]_vars

\* C15: in an open session the widget's busy flag is true exactly while at
\* least one query of the session is in flight.
C15_BusyIffQueryInFlight ==
    (quickPick.created /\ ~ quickPick.disposed) =>
        (quickPick.busy <=> queries # {})

----------------------------------------------------------------------------
(* Claims about activation, checked under SpecStartup *)

\* how many times the not-installed notice has been shown
Notices == Cardinality({ i \in DOMAIN messages : messages[i] = "notInstalled" })

ARealFile == [scheme |-> "file", fsPath |-> <<"/", "a">>]

\* C16: with the binary absent the not-installed notice is shown exactly
\* once per activation (when the check has ended) and never otherwise;
\* activation registers both commands and every tracking listener all the
\* same; updates and queries are still attempted afterwards and fail without
\* any further message, a query rendering the empty list.
C16_AbsentBinaryWarnsOnce ==
    /\ Notices = (IF installCheck = "done" /\ ~ installed THEN 1 ELSE 0)
    /\ Len(messages) = Notices
    /\ activated =>
          /\ installCheck # "idle"
          /\ pc = "idle" =>
                /\ ENABLED InvokeCommand("files")
                /\ ENABLED InvokeCommand("directories")
          /\ updInFlight < MaxInFlight =>
                /\ ENABLED OpenDocument(ARealFile)
                /\ ENABLED WillSave(ARealFile, "Manual")
                /\ ENABLED ChangeWorkspaceFolders([added |-> <<ARealFile>>,
                                                   removed |-> <<>>])
          /\ ENABLED ChangeActiveEditor("text", <<ARealFile>>)
    /\ (~ installed /\ rendered.qid > 0) =>
          /\ ~ rendered.ok
          /\ quickPick.items = <<>>
          /\ ~ quickPick.busy
    /\ (~ installed /\ updInFlight = 0 /\ lastUpdate.type # "none") =>
          updFailed

\* the binary is absent: the notice has been shown once, an update was
\* attempted and failed, a query was made and rendered nothing
C16_Witness ==
    /\ ~ installed
    /\ messages = <<"notInstalled">>
    /\ lastUpdate.type = "files"
    /\ updInFlight = 0
    /\ updFailed
    /\ rendered.qid = 1
    /\ quickPick.visible
    /\ quickPick.items = <<>>
    /\ diagnostics = 1

----------------------------------------------------------------------------
(* Claims about the debounce timer, checked under SpecDebounce *)

\* the pending timer has run down
Due == \E t \in timers : t.left = 0

\* C17: the debounced update is never dispatched earlier than debounceDelay
\* after the most recent call: the pending timer falls due exactly
\* debounceDelay after that call and fires only when due; when no further
\* call arrives it does fire, with the path of that call, and leaves no
\* timer behind, so no second firing follows.
C17_FiresOnceAfterDelay ==
    /\ [](\A t \in timers : t.left = config.debounceDelay - sinceCall)
    /\ [][(\E t \in timers : TimerFires(t)) =>
             /\ sinceCall = config.debounceDelay
             /\ timers' = {}
             /\ fired'.path = calls.path]_vars
    /\ Due ~> (timers = {} \/ sinceCall < config.debounceDelay)

C17_Witness ==
    /\ calls.replaced
    /\ calls.path = <<"/", "a">>
    /\ fired = [n |-> 1, path |-> <<"/", "a">>]
    /\ timers = {}
    /\ sinceCall = config.debounceDelay

----------------------------------------------------------------------------
(* Claims about the queries of a session, checked under SpecSearch *)

\* C18: every text change issues exactly one new query carrying the new
\* text, whatever is in flight; queries are issued by the session's creation
\* and by text changes only (n changes, n + 1 queries), and a query leaves
\* the set of running ones only by responding, never by being cancelled.
C18_EveryTextChangeIssuesOneQuery ==
    [][/\ quickPick'.value # quickPick.value =>
            /\ nIssued' = nIssued + 1
            /\ queries' =
                  queries \cup { [id |-> nIssued', query |-> quickPick'.value] }
            /\ Cardinality(queries') = Cardinality(queries) + 1
       /\ nIssued' # nIssued =>
            \/ quickPick'.value # quickPick.value
            \/ /\ nIssued = 0
               /\ nIssued' = 1
               /\ queries' = { [id |-> 1, query |-> ""] }
       /\ queries \ queries' # {} =>
            /\ Cardinality(queries \ queries') = 1
            /\ queries' \subseteq queries
            /\ rendered'.qid \in { q.id : q \in queries \ queries' }]_vars

\* two text changes made, both of their queries still running
C18_Witness ==
    /\ nIssued = 3
    /\ queries = { [id |-> 2, query |-> "x"], [id |-> 3, query |-> ""] }
    /\ quickPick.visible

\* C19: on invocation the session's first query, with empty text, is issued
\* at once and before any other, and the widget with its placeholder is on
\* screen from then on, not only after that query's response.
C19_InitialQueryAndWidgetAtOnce ==
    /\ pc # "idle" => nIssued >= 1
    /\ pc = "awaitInitial" =>
          /\ nIssued = 1
          /\ queries = { [id |-> 1, query |-> ""] }
          /\ quickPick.placeholder = Placeholder(stype)
          /\ quickPick.visible

\* C20: a query that has not responded (and may never respond) stalls only
\* its own session: while it is outstanding the widget stays busy, the
\* tracking listeners can still run, and a later query of the session that
\* responds has its results rendered.
C20_HungQueryStallsOnlyItsSession ==
    /\ [](activated /\ queries # {} /\ updInFlight < MaxInFlight =>
             ENABLED OpenDocument(ARealFile))
    /\ [][\A q \in queries, o \in FindOutcomes :
             (QueryResponds(q, o) /\ queries' # {}) =>
                 /\ quickPick'.items = toItems(executeJumper(o).value)
                 /\ ~ quickPick.disposed => quickPick'.busy]_vars

(* the tracking filter *)

\* the paths a document, an editor or a folder can hand to the filter
FilterPaths == { u.fsPath : u \in Uris } \cup { <<>> }

\* C21: shouldTrackFile returns false exactly when the path is empty,
\* contains a colon or matches one of the configured exclusion globs, and
\* true otherwise; a path below an excluded directory is rejected.
C21_RejectsExactlyExcluded ==
    \A p \in FilterPaths :
        shouldTrackFile(p) <=>
            ~ (p = <<>> \/ includes(p, <<":">>) \/ MatchesExclusion(p))

\* C22: the exclusion policy is the same at every site: the tracking filter
\* drops a file's path if and only if the directory listing, which hands
\* the same patterns to the editor's file search as one glob, leaves that
\* file out.
C22_FilterAgreesWithListing ==
    \A u \in Uris :
        (~ shouldTrackFile(u.fsPath)) <=> MatchesExclusion(u.fsPath)

(* the weights *)

\* the values that are non-negative numbers
NonNegativeNumbers == { ConfiguredWeights[k] : k \in DOMAIN ConfiguredWeights }

\* C23: every `jumper update` process is started with a weight that is a
\* non-negative number of the weights table; when the setting for an
\* event's kind holds no value, no process is started with weight 0 or
\* with something that is not a number.
C23_WeightIsNonNegativeNumber ==
    lastUpdate.type # "none" => lastUpdate.weight \in NonNegativeNumbers

(* the parsing of the engine's output *)

\* C24: whatever a `jumper find` process wrote to its standard output, the
\* list executeJumper returns, which the widget's items carry, holds no
\* empty string, and each of its elements is trimmed of surrounding
\* whitespace and free of colour escape sequences.
C24_LinesNonEmptyTrimmedUncoloured ==
    (rendered.qid > 0 /\ rendered.ok) =>
        \A i \in 1..Len(quickPick.items) :
            LET line == quickPick.items[i].path
            IN  /\ line # <<>>
                /\ trim(line) = line
                /\ ~ includes(line, <<Ansi>>)

(* the selection of a directory *)

\* C25: accepting a directory starts exactly one `jumper update` process,
\* for the expanded path, with the visit weight and type directories; the
\* listing of the directory starts when that process has exited and not
\* before, and it starts whether the process succeeded or failed.
C25_ListingAfterUpdateReturns ==
    /\ [][(cont'.pc = "updating" /\ cont.pc # "updating") =>
             /\ lastUpdate' =
                  [type |-> "directories", weight |-> config.weights.visit,
                   path |-> expandTilde(cont'.selected),
                   origin |-> [kind |-> "select", scheme |-> "file",
                               src |-> cont'.selected]]
             /\ lastUpdate'.path = cont'.dir
             /\ fsOp' = fsOp]_vars
    /\ [][(cont.pc = "updating" /\ cont' # cont) =>
             /\ cont' = [cont EXCEPT !.pc = "listing"]
             /\ fsOp' = [op |-> "list", path |-> lastUpdate.path,
                         item |-> cont.selected]
             /\ lastUpdate' = lastUpdate]_vars
    /\ [][(cont'.pc = "listing" /\ cont.pc # "listing") =>
             cont.pc = "updating"]_vars

\* the update of a selected home-tilde directory failed and its listing runs
C25_Witness ==
    /\ cont.pc = "listing"
    /\ updFailed
    /\ cont.selected = <<"~", "/", "a">>
    /\ lastUpdate.path = Home \o <<"/", "a">>
    /\ fsOp = [op |-> "list", path |-> Home \o <<"/", "a">>,
               item |-> <<"~", "/", "a">>]

(* the command line of a query *)

\* C26: the command line of every query is built from the settings as they
\* are when the query is made: `-n` and the result cap unless the cap is
\* no_limit, `-H` exactly when homeTilde is set, `-r` exactly when relative
\* is set, the syntax always, `-S` or `-I` only for the sensitive or the
\* insensitive mode, and the quoted query text exactly when it is not
\* empty; a setting changed between two text changes shows in the second.
C26_CommandFromCurrentSettings ==
    [][nIssued' # nIssued =>
         LET cmd    == lastFind'
             args   == [i \in 1..((Len(cmd) + 1) \div 2) |-> cmd[2 * i - 1]]
             has(a) == \E i \in 1..Len(args) : args[i] = a
             query  == IF nIssued' = 1 THEN "" ELSE quickPick'.value
             quoted == "\"" \o query \o "\""
         IN  /\ \A i \in 1..Len(cmd) : i % 2 = 0 => cmd[i] = " "
             /\ SubSeq(args, 1, 3) = <<"jumper", "find", "--type=" \o stype'>>
             /\ IF config.maxResults = "no_limit" THEN ~ has("-n")
                ELSE args[4] = "-n" /\ args[5] = config.maxResults
             /\ has("-H") <=> config.homeTilde
             /\ has("-r") <=> config.relative
             /\ has("--syntax=" \o config.syntax)
             /\ has("-S") <=> config.caseSensitivity = "sensitive"
             /\ has("-I") <=> config.caseSensitivity = "insensitive"
             /\ IF query = "" THEN \A t \in Texts : ~ has("\"" \o t \o "\"")
                ELSE args[Len(args)] = quoted
             /\ Len(args) = 4 + (IF config.maxResults = "no_limit" THEN 0 ELSE 2)
                              + (IF config.homeTilde THEN 1 ELSE 0)
                              + (IF config.relative THEN 1 ELSE 0)
                              + (IF config.caseSensitivity = "default"
                                 THEN 0 ELSE 1)
                              + (IF query = "" THEN 0 ELSE 1)]_vars

\* the session started under a cap of 300 without the relative flag; its
\* second text change is made under no_limit with relative set
C26_Witness ==
    /\ nIssued = 3
    /\ [id |-> 2, query |-> "x"] \in queries
    /\ config.maxResults = "no_limit"
    /\ config.relative
    /\ lastFind = <<"jumper", " ", "find", " ", "--type=files", " ", "-H",
                    " ", "-r", " ", "--syntax=extended">>

(* the workspace folders *)

\* the process updateDatabase starts for a workspace folder
FolderUpdate(folder, kind) ==
    [type |-> "directories", weight |-> config.weights.visit,
     path |-> folder.fsPath, origin |-> Origin(kind, folder)]

\* C27: each folder the workspace has at activation, and each folder added
\* to it later, starts exactly one `jumper update` process, of type
\* directories with the visit weight and the folder's path; a removed
\* folder starts none.
C27_OneUpdatePerFolder ==
    /\ [](\A folders \in FolderLists, kind \in {"activation", "folder"} :
             forEachFolder(<<>>, folders, kind) =
                 [i \in 1..Len(folders) |-> FolderUpdate(folders[i], kind)])
    /\ [][\A folders \in FolderLists :
             Activate(folders) =>
                 /\ updInFlight' = updInFlight + Len(folders)
                 /\ folders # <<>> =>
                      lastUpdate' =
                          FolderUpdate(folders[Len(folders)], "activation")]_vars
    /\ [][\A event \in FolderEvents :
             ChangeWorkspaceFolders(event) =>
                 /\ updInFlight' = updInFlight + Len(event.added)
                 /\ event.added # <<>> =>
                      lastUpdate' =
                          FolderUpdate(event.added[Len(event.added)],
                                       "folder")]_vars

\* two processes started for folders are running, the later one for a folder
\* added after activation
C27_Witness ==
    /\ activated
    /\ updInFlight = 2
    /\ lastUpdate = FolderUpdate([scheme |-> "file",
                                  fsPath |-> <<"/", "n", "/", "a">>], "folder")

(* the pick of a file in a selected directory *)

\* C28: the pick of a file in a directory runs once and makes no query to
\* the engine; it lists at most MAX_FILES_IN_DIRECTORY files; when the
\* listing is empty an information message is shown and neither a pick nor
\* a file is opened.
C28_NestedPickOneShotAndCapped ==
    /\ [](cont.listed <= MAX_FILES_IN_DIRECTORY)
    /\ [][(cont.pc \in {"listing", "picking"} /\ cont' # cont) =>
             /\ nIssued' = nIssued
             /\ queries' = queries
             /\ lastFind' = lastFind
             /\ cont'.pc \notin {"updating", "listing"}
             /\ cont.pc = "picking" => cont'.pc # "picking"]_vars
    /\ [][(cont.pc = "listing" /\ cont'.pc = "picking") =>
             cont'.listed > 0 /\ cont'.files # <<>>]_vars
    /\ [][(cont.pc = "listing" /\ cont'.pc = "done") =>
             /\ messages' = Append(messages, "info")
             /\ cont'.listed = 0
             /\ fsOp' = fsOp]_vars
    /\ [][(cont.pc = "listing" /\ fsOp'.op = "open") => fsOp' = fsOp]_vars

\* a directory with more files than the cap is listed and its pick is open
C28_Witness ==
    /\ cont.pc = "picking"
    /\ cont.listed = MAX_FILES_IN_DIRECTORY
    /\ fsOp.op = "list"

(* the start of a session *)

\* C29: the handler of text changes is registered and the widget is shown
\* only once the response to the session's first query has been written to
\* the widget; until then that query is the only one of the session, so no
\* query of a text change runs beside it, and as long as it has not
\* responded the widget is not shown.
C29_HandlersAndShowAfterInitial ==
    /\ [](pc = "awaitInitial" =>
             /\ quickPick.handlers = {}
             /\ ~ quickPick.visible
             /\ nIssued = 1
             /\ queries = { [id |-> 1, query |-> ""] })
    /\ [](\A q \in queries : q.id = 1 => queries = {q})
    /\ []((quickPick.visible \/ quickPick.handlers # {}) =>
             pc = "returned" /\ rendered.qid >= 1)
    /\ [][(pc = "awaitInitial" /\ pc' # pc) =>
             /\ pc' = "returned"
             /\ rendered'.qid = 1
             /\ quickPick'.visible
             /\ "onDidChangeValue" \in quickPick'.handlers
             /\ ~ quickPick'.busy
             /\ queries' = {}]_vars

\* the first response has been written and the widget is on screen with
\* its handlers, no text change made yet
C29_Witness ==
    /\ pc = "returned"
    /\ nIssued = 1
    /\ rendered.qid = 1
    /\ rendered.stdout # <<>>
    /\ quickPick.visible
    /\ "onDidChangeValue" \in quickPick.handlers
    /\ Len(quickPick.items) = MaxResults

(* active editor changes that are not tracked *)

\* what the listeners receive when the active item is no file on disk
NonFileEditors ==
    { <<>> } \cup { <<u>> : u \in { v \in Uris : v.scheme # "file" } }

\* C30: a change of the active editor to none, or to a document whose
\* scheme is not `file`, neither schedules an update nor cancels the
\* pending timer: the timer of the file that was active before is left as
\* it is and still fires, with that file's path.
C30_UntrackedChangeLeavesTimer ==
    /\ [][\A listener \in Listeners, editor \in NonFileEditors :
             ChangeActiveEditor(listener, editor) =>
                 UNCHANGED <<timers, timeout, sinceCall, updateVars, fired>>]_vars
    /\ [][(calls'.skipped /\ ~ calls.skipped) =>
             /\ timers # {}
             /\ UNCHANGED <<timers, timeout, sinceCall, updateVars, fired>>]_vars
    /\ [][(calls.skipped /\ ~ calls'.skipped) =>
             \/ /\ fired'.path = calls.path
                /\ timers' = {}
                /\ sinceCall = config.debounceDelay
             \/ /\ sinceCall' = 0
                /\ \E t \in timers' : t.left = config.debounceDelay]_vars
    /\ (calls.skipped /\ Due) ~> ~ calls.skipped

\* the timer of /a is due, and while it was pending the active editor
\* changed to something that is not tracked
C30_Witness ==
    /\ calls.skipped
    /\ calls.path = <<"/", "a">>
    /\ timers = { [id |-> timeout, left |-> 0, args |-> <<"/", "a">>] }
    /\ sinceCall = config.debounceDelay

(* the one tracker of the two active editor listeners *)

\* C31: the listeners of text editors and of notebook editors call the same
\* debounced function, which keeps one timer: at most one update of an
\* active editor is pending at any time, and a call made through either
\* listener replaces the timer pending from a call made through the other.
C31_OneTimerForBothListeners ==
    /\ [](Cardinality(timers) <= 1)
    /\ [][\A listener \in Listeners, uri \in { u \in Uris : u.scheme = "file" } :
             ChangeActiveEditor(listener, <<uri>>) =>
                 timers' = { [id |-> timeout', left |-> config.debounceDelay,
                              args |-> uri.fsPath] }]_vars
    /\ [][(calls'.crossed /\ timeout' # timeout) =>
             /\ timers # {}
             /\ calls'.listener # calls.listener
             /\ \A t \in timers' :
                   /\ t \notin timers
                   /\ t.args = calls'.path
                   /\ t.left = config.debounceDelay]_vars

\* a notebook became active while the timer of a text editor was pending:
\* the one timer left is the notebook's
C31_Witness ==
    /\ calls.crossed
    /\ calls.listener = "notebook"
    /\ timers = { [id |-> timeout, left |-> config.debounceDelay,
                   args |-> <<"/", "n", "/", "a">>] }

(* the continuation of a session *)

\* C32: the onSelect continuation is started at most once in a session, and
\* only by an accept made on the visible widget with a selected item that
\* has a path; a dismissal disposes of the widget and starts nothing, then
\* or later; an accept made with no item selected changes nothing and
\* leaves the widget on screen.
C32_ContinuationOnceOnAccept ==
    /\ [][(cont.pc = "none" /\ cont'.pc # "none") =>
             /\ quickPick.visible
             /\ ~ quickPick'.visible
             /\ cont'.selected # <<>>
             /\ \E i \in 1..Len(quickPick.items) :
                   quickPick.items[i].path = cont'.selected]_vars
    /\ [][cont.pc # "none" =>
             cont'.pc # "none" /\ cont'.selected = cont.selected]_vars
    /\ [][(quickPick.visible /\ ~ quickPick'.visible /\ cont'.pc = "none") =>
             quickPick'.disposed]_vars
    /\ [][(~ quickPick.visible /\ cont.pc = "none") => cont'.pc = "none"]_vars
    /\ [][Accept(0) => UNCHANGED vars]_vars
    /\ []((quickPick.visible /\ "onDidAccept" \in quickPick.handlers) =>
             ENABLED Accept(0))

\* a directory was accepted once: the widget is hidden and the continuation
\* has run to its end
C32_Witness ==
    /\ stype = "directories"
    /\ cont.pc = "done"
    /\ cont.selected = <<"/", "b", "~">>
    /\ ~ quickPick.visible
    /\ quickPick.disposed

(* tracking and searching side by side *)

\* a search session of an activated extension while documents are opened
\* and saved, folders are added and the active editor changes
NextBoth ==
    \/ \E type \in {"files", "directories"} : InvokeCommand(type)
    \/ \E q \in queries, o \in { FailedFind, [ok |-> TRUE, stdout |-> <<"/", "b", "~", NL>>] } :
          QueryResponds(q, o)
    \/ \E v \in Texts : ChangeValue(v)
    \/ \E i \in 0..1 : Accept(i)
    \/ Hide
    \/ DidHide
    \/ \E ok \in BOOLEAN : UpdateExits(TRUE, ok)
    \/ ListCompletes([ok |-> FALSE, listed |-> 0, files |-> <<>>])
    \/ OpenCompletes(TRUE)
    \/ OpenDocument(ARealFile)
    \/ WillSave(ARealFile, "Manual")
    \/ ChangeWorkspaceFolders([added |-> <<ARealFile>>, removed |-> <<>>])
    \/ ChangeActiveEditor("text", <<ARealFile>>)
    \/ \E t \in timers : TimerFires(t)
    \/ Tick
    \/ \E ok \in BOOLEAN : UpdateExits(FALSE, ok)

SpecBoth == InitCommand /\ [][NextBoth]_vars

\* what a session shows and asks, and what the tracker holds and has started
SearchSide == <<pc, stype, quickPick, queries, nIssued, lastFind, rendered>>

TrackingSide == <<timers, timeout, sinceCall, updInFlight>>

\* C33: tracking and searching do not touch each other's state: no step
\* changes both a session's text, running queries or rendered results and
\* the tracker's timer or the number of running updates; whatever the
\* session does, a usage event is still taken and a due timer still fires;
\* and an update is started from the search path only by the continuation
\* of a selected directory.
C33_TrackingAndSearchIndependent ==
    /\ [][UNCHANGED SearchSide \/ UNCHANGED TrackingSide]_vars
    /\ [][(lastUpdate' # lastUpdate /\ ~ UNCHANGED SearchSide) =>
             /\ lastUpdate'.origin.kind = "select"
             /\ lastUpdate'.type = "directories"
             /\ stype = "directories"
             /\ cont'.pc = "updating"]_vars
    /\ [][(lastUpdate' # lastUpdate /\ lastUpdate'.origin.kind = "select") =>
             stype = "directories" /\ cont.pc = "none"]_vars
    /\ [][(cont' # cont \/ fsOp' # fsOp) => UNCHANGED TrackingSide]_vars
    /\ [](updInFlight < MaxInFlight =>
             /\ ENABLED OpenDocument(ARealFile)
             /\ ENABLED WillSave(ARealFile, "Manual")
             /\ \A t \in timers : t.left = 0 => ENABLED TimerFires(t))
    /\ [](ENABLED ChangeActiveEditor("text", <<ARealFile>>))
    /\ [](pc = "idle" => ENABLED InvokeCommand("files"))
    /\ []((quickPick.visible /\ nIssued < MaxQueries) =>
             \E v \in Texts : ENABLED ChangeValue(v))
    /\ [](\A q \in queries : ENABLED QueryResponds(q, FailedFind))

\* a timer is pending and an update is running while a session has a query
\* running and its first results on screen
C33_Witness ==
    /\ timers # {}
    /\ updInFlight > 0
    /\ lastUpdate.origin.kind = "open"
    /\ quickPick.visible
    /\ queries # {}
    /\ Len(quickPick.items) = 1

====
